---- MODULE Spec2Model ----
(***************************************************************************)
(* A model of the byte-pair-encoding tokenizer of cs336_basics/bpe.py:     *)
(* one BPE object, its train / encode / decode methods, and the caller     *)
(* that invokes them one after the other.                                  *)
(*                                                                         *)
(* A character is its Unicode code point, a byte is a number in 0..255, a  *)
(* Symbol (python bytes) is a sequence of bytes, a python dict is the      *)
(* sequence of its [k, v] entries in insertion order.                      *)
(***************************************************************************)
EXTENDS Integers, Sequences, FiniteSets, TLC

\* ---------------------------------------------------------------- bounds
MaxTextLen == 2
MaxExtra == 2

\* ------------------------------------------------------ program constants
NumBytes == 256

\* ------------------------------------------------------------ input sets
Alphabet == {32, 97, 98, 233}

Encodings == {"utf-8", "ascii"}

SeqsUpTo(S, n) == UNION {[1..k -> S] : k \in 0..n}

\* "aaa", "aaab", "ab ba" and "aa aa"
LongTexts == {<<97, 97, 97>>, <<97, 97, 97, 98>>, <<97, 98, 32, 98, 97>>,
              <<97, 97, 32, 97, 97>>}

Texts == SeqsUpTo(Alphabet, MaxTextLen) \cup LongTexts

\* special_tokens: none; one equal to a byte, then one that a merge can produce,
\* twice; one that ascii cannot encode, after one it can.
SpecialLists == {<<>>, <<<<97>>, <<97, 98>>, <<97, 98>>>>, <<<<97, 98>>, <<233>>>>}

VocabSizes == NumBytes..(NumBytes + MaxExtra)

IdLists == {<<>>, <<97>>, <<195>>, <<195, 169>>, <<256>>, <<256, 97>>, <<257>>, <<258>>}

\* ------------------------------------------------- str.encode / bytes.decode
\* str.encode of one character. utf-8: one byte below U+0080, two bytes below
\* U+0800 (the model's characters are all below U+0800).
EncodeChar(c) == IF c < 128 THEN <<c>> ELSE <<192 + (c \div 64), 128 + (c % 64)>>

\* ascii encodes the characters below U+0080 only; utf-8 encodes every one.
CanEncode(s, enc) == enc = "utf-8" \/ \A i \in DOMAIN s : s[i] < 128

RECURSIVE StrEncode(_)
StrEncode(s) == IF s = <<>> THEN <<>> ELSE EncodeChar(Head(s)) \o StrEncode(Tail(s))

\* bytes.decode: whether the byte string is well formed under the encoding.
\* (No byte of the model is a utf-8 lead byte of a 3- or 4-byte form.)
RECURSIVE CanDecode(_, _)
CanDecode(bs, enc) ==
    IF bs = <<>> THEN TRUE
    ELSE IF Head(bs) < 128 THEN CanDecode(Tail(bs), enc)
    ELSE /\ enc = "utf-8"
         /\ Head(bs) \in 194..223
         /\ Len(bs) >= 2
         /\ bs[2] \in 128..191
         /\ CanDecode(Tail(Tail(bs)), enc)

RECURSIVE BytesDecode(_)
BytesDecode(bs) ==
    IF bs = <<>> THEN <<>>
    ELSE IF Head(bs) < 128 THEN <<Head(bs)>> \o BytesDecode(Tail(bs))
    ELSE <<(Head(bs) - 192) * 64 + (bs[2] - 128)>> \o BytesDecode(Tail(Tail(bs)))

\* str.split(): the maximal runs of non-whitespace characters, in order.
IsSpace(c) == c \in {9, 10, 11, 12, 13, 28, 29, 30, 31, 32, 133, 160}

RECURSIVE SplitFrom(_, _, _)
SplitFrom(text, i, cur) ==
    IF i > Len(text) THEN (IF cur = <<>> THEN <<>> ELSE <<cur>>)
    ELSE IF IsSpace(text[i])
         THEN (IF cur = <<>> THEN <<>> ELSE <<cur>>) \o SplitFrom(text, i + 1, <<>>)
         ELSE SplitFrom(text, i + 1, Append(cur, text[i]))

Split(text) == SplitFrom(text, 1, <<>>)

\* [bytes([b]) for b in bs]
SingleBytes(bs) == [i \in DOMAIN bs |-> <<bs[i]>>]

\* b''.join(symbols)
RECURSIVE Join(_)
Join(syms) == IF syms = <<>> THEN <<>> ELSE Head(syms) \o Join(Tail(syms))

\* ------------------------------------------------------------ python dict
DictKeys(d) == {d[i].k : i \in DOMAIN d}

DictIndex(d, key) == CHOOSE i \in DOMAIN d : d[i].k = key

DictGet(d, key, default) == IF key \in DictKeys(d) THEN d[DictIndex(d, key)].v ELSE default

\* d[key] = val: an existing key keeps its position, a new key goes last.
DictPut(d, key, val) ==
    IF key \in DictKeys(d)
    THEN [d EXCEPT ![DictIndex(d, key)] = [k |-> key, v |-> val]]
    ELSE Append(d, [k |-> key, v |-> val])

\* --------------------------------------------------------------- _get_stats
RECURSIVE StatsWord(_, _, _, _)
StatsWord(pairs, word, freq, i) ==
    IF i > Len(word) - 1 THEN pairs
    ELSE StatsWord(DictPut(pairs, <<word[i], word[i + 1]>>,
                           DictGet(pairs, <<word[i], word[i + 1]>>, 0) + freq),
                   word, freq, i + 1)

RECURSIVE StatsFrom(_, _, _)
StatsFrom(pairs, words, j) ==
    IF j > Len(words) THEN pairs
    ELSE StatsFrom(StatsWord(pairs, words[j].k, words[j].v, 1), words, j + 1)

GetStats(words) == StatsFrom(<<>>, words, 1)

\* A most_common that keeps the last item of maximal count.
MostCommonLast(pairs) ==
    LET best == CHOOSE i \in DOMAIN pairs :
                   /\ \A j \in DOMAIN pairs : pairs[j].v <= pairs[i].v
                   /\ \A j \in (i + 1)..Len(pairs) : pairs[j].v < pairs[i].v
    IN  pairs[best].k

\* Counter.most_common(1)[0][0]: max() over the items in insertion order keeps
\* the first item of maximal count.
MostCommon(pairs) ==
    LET best == CHOOSE i \in DOMAIN pairs :
                   /\ \A j \in DOMAIN pairs : pairs[j].v <= pairs[i].v
                   /\ \A j \in 1..(i - 1) : pairs[j].v < pairs[i].v
    IN  pairs[best].k

\* ------------------------------------------------------------- _merge_vocab
\* A scan that resumes one Symbol after a match instead of two.
RECURSIVE MergeWordOverlapping(_, _, _)
MergeWordOverlapping(word, pair, i) ==
    IF i > Len(word) THEN <<>>
    ELSE IF i < Len(word) /\ word[i] = pair[1] /\ word[i + 1] = pair[2]
         THEN <<pair[1] \o pair[2]>> \o MergeWordOverlapping(word, pair, i + 1)
         ELSE <<word[i]>> \o MergeWordOverlapping(word, pair, i + 1)

\* the while loop of lines 29-35 over one word, from position i on
RECURSIVE MergeWord(_, _, _)
MergeWord(word, pair, i) ==
    IF i > Len(word) THEN <<>>
    ELSE IF i < Len(word) /\ word[i] = pair[1] /\ word[i + 1] = pair[2]
         THEN <<pair[1] \o pair[2]>> \o MergeWord(word, pair, i + 2)
         ELSE <<word[i]>> \o MergeWord(word, pair, i + 1)

RECURSIVE MergeFrom(_, _, _, _)
MergeFrom(new_words, pair, words, j) ==
    IF j > Len(words) THEN new_words
    ELSE MergeFrom(DictPut(new_words, MergeWord(words[j].k, pair, 1), words[j].v),
                   pair, words, j + 1)

\* A rewrite that counts every rewritten Word once.
MergeVocabResetsFreq(pair, ws) ==
    [j \in DOMAIN ws |-> [k |-> MergeWord(ws[j].k, pair, 1), v |-> 1]]

MergeVocab(pair, ws) == MergeFrom(<<>>, pair, ws, 1)

\* ------------------------------------------------------------ train, set-up
BaseVocab == [i \in 0..(NumBytes - 1) |-> <<i>>]

BaseTokenToId == [s \in {<<i>> : i \in 0..(NumBytes - 1)} |-> s[1]]

\* The special-token loop of lines 49-54 from token i on. ok is FALSE when
\* special_token.encode raised; the entries made before it stay.
RECURSIVE AddSpecials(_, _, _, _, _, _)
AddSpecials(v, t, next_id, toks, i, enc) ==
    IF i > Len(toks) THEN [vocab |-> v, token_to_id |-> t, ok |-> TRUE]
    ELSE IF ~CanEncode(toks[i], enc) THEN [vocab |-> v, token_to_id |-> t, ok |-> FALSE]
    ELSE LET special_bytes == StrEncode(toks[i])
         IN  IF special_bytes \notin DOMAIN t
             THEN AddSpecials((next_id :> special_bytes) @@ v,
                              (special_bytes :> next_id) @@ t,
                              next_id + 1, toks, i + 1, enc)
             ELSE AddSpecials(v, t, next_id, toks, i + 1, enc)

\* The corpus loop of lines 56-60.
RECURSIVE CountWords(_, _, _)
CountWords(ws, split, j) ==
    IF j > Len(split) THEN ws
    ELSE LET word_tuple == SingleBytes(StrEncode(split[j]))
         IN  CountWords(DictPut(ws, word_tuple, DictGet(ws, word_tuple, 0) + 1), split, j + 1)

BuildWords(text) == CountWords(<<>>, Split(text), 1)

\* One pass of the body of the merge loop, lines 64-75, on the loop's state.
MergeStep(st) ==
    LET best_pair == MostCommon(GetStats(st.words))
        new_token == best_pair[1] \o best_pair[2]
    IN  [vocab |-> (st.current_vocab_size :> new_token) @@ st.vocab,
         token_to_id |-> (new_token :> st.current_vocab_size) @@ st.token_to_id,
         merges |-> Append(st.merges, best_pair),
         words |-> MergeVocab(best_pair, st.words),
         current_vocab_size |-> st.current_vocab_size + 1]

\* The merge loop of lines 63-75, run to its end.
RECURSIVE MergeLoop(_, _)
MergeLoop(st, vs) ==
    IF st.current_vocab_size < vs /\ GetStats(st.words) # <<>>
    THEN MergeLoop(MergeStep(st), vs)
    ELSE st

\* What BPE(encoding=enc).train leaves in a newly constructed object when it
\* reads txt and returns.
FreshTrain(enc, txt, vs, toks) ==
    LET s == AddSpecials(BaseVocab, BaseTokenToId, NumBytes, toks, 1, enc)
    IN  MergeLoop([vocab |-> s.vocab, token_to_id |-> s.token_to_id, merges |-> <<>>,
                   words |-> BuildWords(txt),
                   current_vocab_size |-> Cardinality(DOMAIN s.vocab)], vs)

\* ------------------------------------------------------------------ encode
\* the while loop of lines 90-97 for one rule, from position i on
RECURSIVE EncodePass(_, _, _)
EncodePass(tokens, pair, i) ==
    IF i > Len(tokens) THEN <<>>
    ELSE IF i < Len(tokens) /\ tokens[i] = pair[1] /\ tokens[i + 1] = pair[2]
         THEN <<pair[1] \o pair[2]>> \o EncodePass(tokens, pair, i + 2)
         ELSE <<tokens[i]>> \o EncodePass(tokens, pair, i + 1)

\* for pair in self.merges, from rule k on
RECURSIVE ApplyMerges(_, _, _)
ApplyMerges(tokens, rules, k) ==
    IF k > Len(rules) THEN tokens
    ELSE ApplyMerges(EncodePass(tokens, rules[k], 1), rules, k + 1)

\* -------------------------------------------------------------------- state
VARIABLES
    encoding_name, vocab, token_to_id, merges, trained,     \* the BPE object
    pc,                   \* "idle", "train_loop" or "returned"
    op,                   \* the method called last: "none", "train", "encode", "decode"
    text,                 \* train: the text read from the file; encode: its argument
    indices,              \* decode: its argument
    vocab_size, special_tokens, words, current_vocab_size,  \* train's arguments and locals
    err,                  \* the exception the call raised, "" when it returned
    result                \* what encode or decode returned

object == <<encoding_name, vocab, token_to_id, merges, trained>>
frame == <<text, indices, vocab_size, special_tokens, words, current_vocab_size>>
vars == <<encoding_name, vocab, token_to_id, merges, trained, pc, op, text, indices,
          vocab_size, special_tokens, words, current_vocab_size, err, result>>

NoFrame ==
    /\ text' = <<>>
    /\ indices' = <<>>
    /\ vocab_size' = 0
    /\ special_tokens' = <<>>
    /\ words' = <<>>
    /\ current_vocab_size' = 0

\* __init__
Init ==
    /\ encoding_name \in Encodings
    /\ vocab = <<>>
    /\ token_to_id = <<>>
    /\ merges = <<>>
    /\ trained = FALSE
    /\ pc = "idle"
    /\ op = "none"
    /\ text = <<>>
    /\ indices = <<>>
    /\ vocab_size = 0
    /\ special_tokens = <<>>
    /\ words = <<>>
    /\ current_vocab_size = 0
    /\ err = ""
    /\ result = <<>>

\* train: open() raises, the file does not exist.
TrainOpenFails ==
    /\ pc = "idle"
    /\ pc' = "returned"
    /\ op' = "train"
    /\ err' = "FileNotFoundError"
    /\ result' = <<>>
    /\ NoFrame
    /\ UNCHANGED object

\* train: f.read() raises, the file's bytes are not text under the encoding.
TrainReadFails(file) ==
    /\ pc = "idle"
    /\ ~CanDecode(file, encoding_name)
    /\ pc' = "returned"
    /\ op' = "train"
    /\ err' = "UnicodeDecodeError"
    /\ result' = <<>>
    /\ NoFrame
    /\ UNCHANGED object

\* train, lines 40-62: up to the first test of the merge loop.
TrainStart(file, vs, toks) ==
    /\ pc = "idle"
    /\ CanDecode(file, encoding_name)
    \* the bound of the model: a call is made while the rules it can add, counted
    \* as one at least, fit a merges list of MaxExtra rules
    /\ Len(merges) + (IF vs > NumBytes THEN vs - NumBytes ELSE 1) <= MaxExtra
    /\ LET s == AddSpecials(BaseVocab, BaseTokenToId, NumBytes, toks, 1, encoding_name)
       IN  /\ vocab' = s.vocab
           /\ token_to_id' = s.token_to_id
           /\ op' = "train"
           /\ text' = BytesDecode(file)
           /\ vocab_size' = vs
           /\ special_tokens' = toks
           /\ indices' = <<>>
           /\ result' = <<>>
           /\ IF s.ok
              THEN /\ pc' = "train_loop"
                   /\ err' = ""
                   /\ words' = BuildWords(BytesDecode(file))
                   /\ current_vocab_size' = Cardinality(DOMAIN s.vocab)
              ELSE /\ pc' = "returned"
                   /\ err' = "UnicodeEncodeError"
                   /\ words' = <<>>
                   /\ current_vocab_size' = 0
    /\ UNCHANGED <<encoding_name, merges, trained>>

\* train, lines 63-75: one pass of the merge loop.
TrainIter ==
    /\ pc = "train_loop"
    /\ current_vocab_size < vocab_size
    /\ GetStats(words) # <<>>
    /\ LET s == MergeStep([vocab |-> vocab, token_to_id |-> token_to_id, merges |-> merges,
                           words |-> words, current_vocab_size |-> current_vocab_size])
       IN  /\ vocab' = s.vocab
           /\ token_to_id' = s.token_to_id
           /\ merges' = s.merges
           /\ words' = s.words
           /\ current_vocab_size' = s.current_vocab_size
    /\ UNCHANGED <<encoding_name, trained, pc, op, text, indices, vocab_size,
                   special_tokens, err, result>>

\* train, lines 63 and 77-78: the loop's test fails.
TrainExit ==
    /\ pc = "train_loop"
    /\ ~(current_vocab_size < vocab_size)
    /\ trained' = TRUE
    /\ pc' = "returned"
    /\ UNCHANGED <<encoding_name, vocab, token_to_id, merges, op, err, result>>
    /\ UNCHANGED frame

\* train, lines 65-66 and 77-78: no pair is left.
TrainBreak ==
    /\ pc = "train_loop"
    /\ current_vocab_size < vocab_size
    /\ GetStats(words) = <<>>
    /\ trained' = TRUE
    /\ pc' = "returned"
    /\ UNCHANGED <<encoding_name, vocab, token_to_id, merges, op, err, result>>
    /\ UNCHANGED frame

\* An encode without the test of lines 81-82.
EncodeOutUnguarded(t) ==
    IF ~CanEncode(t, encoding_name) THEN [err |-> "UnicodeEncodeError", result |-> <<>>]
    ELSE LET tokens == ApplyMerges(SingleBytes(StrEncode(t)), merges, 1)
         IN  IF \E i \in DOMAIN tokens : tokens[i] \notin DOMAIN token_to_id
             THEN [err |-> "KeyError", result |-> <<>>]
             ELSE [err |-> "", result |-> [i \in DOMAIN tokens |-> token_to_id[tokens[i]]]]

\* encode, lines 81-100: what the call raises and what it returns.
EncodeOut(t) ==
    IF ~trained THEN [err |-> "ValueError", result |-> <<>>]
    ELSE IF ~CanEncode(t, encoding_name) THEN [err |-> "UnicodeEncodeError", result |-> <<>>]
    ELSE LET tokens == ApplyMerges(SingleBytes(StrEncode(t)), merges, 1)
         IN  IF \E i \in DOMAIN tokens : tokens[i] \notin DOMAIN token_to_id
             THEN [err |-> "KeyError", result |-> <<>>]
             ELSE [err |-> "", result |-> [i \in DOMAIN tokens |-> token_to_id[tokens[i]]]]

\* decode, lines 103-107: what the call raises and what it returns.
DecodeOut(ids) ==
    IF ~trained THEN [err |-> "ValueError", result |-> <<>>]
    ELSE IF \E i \in DOMAIN ids : ids[i] \notin DOMAIN vocab
    THEN [err |-> "KeyError", result |-> <<>>]
    ELSE LET byte_sequence == Join([i \in DOMAIN ids |-> vocab[ids[i]]])
         IN  IF ~CanDecode(byte_sequence, encoding_name)
             THEN [err |-> "UnicodeDecodeError", result |-> <<>>]
             ELSE [err |-> "", result |-> BytesDecode(byte_sequence)]

\* encode
Encode(t) ==
    /\ pc = "idle"
    /\ pc' = "returned"
    /\ op' = "encode"
    /\ text' = t
    /\ indices' = <<>>
    /\ vocab_size' = 0
    /\ special_tokens' = <<>>
    /\ words' = <<>>
    /\ current_vocab_size' = 0
    /\ err' = EncodeOut(t).err
    /\ result' = EncodeOut(t).result
    /\ UNCHANGED object

\* decode
Decode(ids) ==
    /\ pc = "idle"
    /\ pc' = "returned"
    /\ op' = "decode"
    /\ indices' = ids
    /\ text' = <<>>
    /\ vocab_size' = 0
    /\ special_tokens' = <<>>
    /\ words' = <<>>
    /\ current_vocab_size' = 0
    /\ err' = DecodeOut(ids).err
    /\ result' = DecodeOut(ids).result
    /\ UNCHANGED object

\* The call is over: the caller has its result or its exception.
Return ==
    /\ pc = "returned"
    /\ pc' = "idle"
    /\ op' = "none"
    /\ err' = ""
    /\ result' = <<>>
    /\ NoFrame
    /\ UNCHANGED object

\* the files written in utf-8, and one written in latin-1
Files == {StrEncode(t) : t \in Texts} \cup {<<233>>}

Next ==
    \/ TrainOpenFails
    \/ \E file \in Files : TrainReadFails(file)
    \/ \E file \in Files, vs \in VocabSizes, toks \in SpecialLists : TrainStart(file, vs, toks)
    \/ TrainIter
    \/ TrainExit
    \/ TrainBreak
    \/ \E t \in Texts : Encode(t)
    \/ \E ids \in IdLists : Decode(ids)
    \/ Return

Spec == Init /\ [][Next]_vars

\* ------------------------------------------------------------------ claims
TrainReturned == pc = "returned" /\ op = "train" /\ err = ""

EncodeReturned == pc = "returned" /\ op = "encode"

\* a step of TrainIter
IterStep == pc = "train_loop" /\ pc' = "train_loop" /\ Len(merges') = Len(merges) + 1

\* C1. Round trip: encode of a text the encoding can represent, on a trained
\* tokenizer, returns ids that decode returns to that text.
C1_RoundTrip ==
    (EncodeReturned /\ trained /\ CanEncode(text, encoding_name)) =>
        /\ err = ""
        /\ Join([i \in DOMAIN result |-> vocab[result[i]]]) = StrEncode(text)
        /\ DecodeOut(result) = [err |-> "", result |-> text]

\* the special tokens train accepts: the distinct ones that are no single byte
Accepted(toks) ==
    Cardinality({StrEncode(toks[i]) : i \in DOMAIN toks} \ {<<b>> : b \in 0..(NumBytes - 1)})

\* C2. When a train call has returned, the vocabulary holds 256 + accepted
\* special tokens + len(merges) entries, and at most vocab_size of them.
C2_VocabSize ==
    TrainReturned =>
        /\ Cardinality(DOMAIN vocab) = NumBytes + Accepted(special_tokens) + Len(merges)
        /\ Cardinality(DOMAIN vocab) <= vocab_size

\* C3. The vocabulary is a bijection: no two ids have the same Symbol, and
\* token_to_id is the inverse of vocab.
C3_Bijection ==
    /\ Cardinality({vocab[i] : i \in DOMAIN vocab}) = Cardinality(DOMAIN vocab)
    /\ DOMAIN token_to_id = {vocab[i] : i \in DOMAIN vocab}
    /\ \A i \in DOMAIN vocab : token_to_id[vocab[i]] = i

\* C4. Once trained is set, no step changes vocab, token_to_id or merges, and
\* trained stays set.
C4_Frozen ==
    [][trained => /\ vocab' = vocab
                  /\ token_to_id' = token_to_id
                  /\ merges' = merges
                  /\ trained']_vars

\* C5. Between calls on a trained tokenizer every rule's left + right is a key
\* of token_to_id, and no encode call raises KeyError.
C5_RulesInVocab ==
    /\ (trained /\ pc \in {"idle", "returned"}) =>
           \A k \in DOMAIN merges : merges[k][1] \o merges[k][2] \in DOMAIN token_to_id
    /\ EncodeReturned => err # "KeyError"

\* The Pairs of a Corpus, their global frequency and where the scan of the
\* Words in order, each left to right, first meets them.
PairAt(ws, pos) == <<ws[pos[1]].k[pos[2]], ws[pos[1]].k[pos[2] + 1]>>

Positions(ws) == UNION {{<<j, i>> : i \in 1..(Len(ws[j].k) - 1)} : j \in DOMAIN ws}

AllPairs(ws) == {PairAt(ws, pos) : pos \in Positions(ws)}

RECURSIVE GlobalFreqFrom(_, _, _)
GlobalFreqFrom(p, ws, j) ==
    IF j > Len(ws) THEN 0
    ELSE ws[j].v * Cardinality({pos \in Positions(ws) : pos[1] = j /\ PairAt(ws, pos) = p})
         + GlobalFreqFrom(p, ws, j + 1)

GlobalFreq(p, ws) == GlobalFreqFrom(p, ws, 1)

Earlier(x, y) == x[1] < y[1] \/ (x[1] = y[1] /\ x[2] < y[2])

FirstSeen(p, ws) ==
    CHOOSE pos \in Positions(ws) :
        /\ PairAt(ws, pos) = p
        /\ \A q \in Positions(ws) : (PairAt(ws, q) = p /\ q # pos) => Earlier(pos, q)

\* C6. The Pair merged in a pass of the loop has maximal global frequency, and
\* every other Pair of that frequency is first met later in the scan; training
\* on "aaab" with vocab_size 258 and no special tokens adds (a,a) then (aa,a),
\* with id 256 -> "aa" and id 257 -> "aaa".
C6_TieBreak ==
    [][/\ IterStep =>
            LET best == merges'[Len(merges')]
            IN  /\ best \in AllPairs(words)
                /\ \A p \in AllPairs(words) :
                      /\ GlobalFreq(p, words) <= GlobalFreq(best, words)
                      /\ (GlobalFreq(p, words) = GlobalFreq(best, words) /\ p # best)
                            => Earlier(FirstSeen(best, words), FirstSeen(p, words))
       /\ (TrainReturned' /\ text' = <<97, 97, 97, 98>> /\ vocab_size' = 258
              /\ special_tokens' = <<>>) =>
            /\ SubSeq(merges', Len(merges') - 1, Len(merges'))
                  = << <<<<97>>, <<97>>>>, <<<<97, 97>>, <<97>>>> >>
            /\ vocab'[256] = <<97, 97>>
            /\ vocab'[257] = <<97, 97, 97>>
      ]_vars

C6_Witness ==
    /\ TrainReturned
    /\ text = <<97, 97, 97, 98>>
    /\ vocab_size = 258
    /\ special_tokens = <<>>
    /\ vocab[257] = <<97, 97, 97>>

\* C7. A train call leaves the vocabulary and the merges list that a train call
\* with the same text, vocab_size and special_tokens leaves in a new tokenizer.
C7_Deterministic ==
    TrainReturned =>
        LET other == FreshTrain(encoding_name, text, vocab_size, special_tokens)
        IN  vocab = other.vocab /\ merges = other.merges

\* C8. encode and decode on a tokenizer that is not trained raise the
\* untrained-model error, return nothing and change nothing in the tokenizer.
C8_Untrained ==
    [][(pc = "idle" /\ ~trained /\ pc' = "returned" /\ op' \in {"encode", "decode"}) =>
           /\ err' = "ValueError"
           /\ result' = <<>>
           /\ UNCHANGED object]_vars

\* after a train call that failed in the special-token loop
C8_Witness ==
    /\ EncodeReturned
    /\ err = "ValueError"
    /\ ~trained
    /\ Cardinality(DOMAIN vocab) > NumBytes

RECURSIVE TotalFreqFrom(_, _)
TotalFreqFrom(ws, j) == IF j > Len(ws) THEN 0 ELSE ws[j].v + TotalFreqFrom(ws, j + 1)

TotalFreq(ws) == TotalFreqFrom(ws, 1)

RECURSIVE TotalBytesFrom(_, _)
TotalBytesFrom(ws, j) ==
    IF j > Len(ws) THEN 0 ELSE ws[j].v * Len(Join(ws[j].k)) + TotalBytesFrom(ws, j + 1)

TotalBytes(ws) == TotalBytesFrom(ws, 1)

\* C9. A pass of the loop keeps every Word's frequency and bytes, makes no two
\* Words equal, and so keeps the Corpus's total frequency and its
\* frequency-weighted byte count.
C9_FreqConserved ==
    [][IterStep =>
           /\ Len(words') = Len(words)
           /\ \A j \in DOMAIN words :
                 /\ words'[j].v = words[j].v
                 /\ Join(words'[j].k) = Join(words[j].k)
           /\ \A i, j \in DOMAIN words' : words'[i].k = words'[j].k => i = j
           /\ TotalFreq(words') = TotalFreq(words)
           /\ TotalBytes(words') = TotalBytes(words)]_vars

\* a Word of frequency 2 that the rewrite has changed
C9_Witness ==
    /\ pc = "train_loop"
    /\ \E j \in DOMAIN words : words[j].v >= 2 /\ \E i \in DOMAIN words[j].k : Len(words[j].k[i]) >= 2

\* The greedy left-to-right replacement of (pair[1], pair[2]) in old, stated
\* without a scan: position i is replaced when the pair stands at i and an even
\* number of positions where it stands lie in a row right before i.
Stands(old, pair, i) == i < Len(old) /\ old[i] = pair[1] /\ old[i + 1] = pair[2]

Replaced(old, pair) ==
    {i \in DOMAIN old :
        /\ Stands(old, pair, i)
        /\ Cardinality({j \in 1..(i - 1) : \A m \in j..(i - 1) : Stands(old, pair, m)}) % 2 = 0}

Kept(old, R) == {i \in DOMAIN old : (i - 1) \notin R}

GreedyOf(old, pair, R, K) ==
    [n \in 1..Cardinality(K) |->
        LET i == CHOOSE x \in K : Cardinality({y \in K : y < x}) = n - 1
        IN  IF i \in R THEN pair[1] \o pair[2] ELSE old[i]]

Greedy(old, pair) ==
    CHOOSE new \in {GreedyOf(old, pair, R, Kept(old, R)) : R \in {Replaced(old, pair)}} : TRUE

\* the rules applied greedily, once each, first to last
RECURSIVE GreedyFrom(_, _)
GreedyFrom(tokens, rules) ==
    IF rules = <<>> THEN tokens
    ELSE CHOOSE out \in {GreedyFrom(g, Tail(rules)) : g \in {Greedy(tokens, Head(rules))}} : TRUE

GreedyAll == GreedyFrom(SingleBytes(StrEncode(text)), merges)

\* C10. A pass of a rule, in the training rewrite of each Word and in encode,
\* is the greedy left-to-right non-overlapping replacement and keeps the bytes;
\* encode applies the rules once each in the order of the merges list; rule
\* (a,a) turns [a,a,a] into [aa,a].
C10_GreedyMerge ==
    [][/\ IterStep =>
            \A j \in DOMAIN words :
                /\ words'[j].k = Greedy(words[j].k, merges'[Len(merges')])
                /\ Join(words'[j].k) = Join(words[j].k)
       /\ (EncodeReturned /\ err = "" =>
              \A tokens \in {[i \in DOMAIN result |-> vocab[result[i]]]} :
                  /\ tokens = GreedyAll
                  /\ Join(tokens) = StrEncode(text)
                  /\ (text = <<97, 97, 97>> /\ merges = << <<<<97>>, <<97>>>> >>)
                         => tokens = <<<<97, 97>>, <<97>>>>)'
      ]_vars

C10_Witness ==
    /\ EncodeReturned
    /\ err = ""
    /\ text = <<97, 97, 97>>
    /\ merges = << <<<<97>>, <<97>>>> >>
    /\ result = <<256, 97>>

====
